---- MODULE Spec2Model ----
(***************************************************************************)
(* pngme: hiding messages in the chunks of a PNG file.                     *)
(*                                                                         *)
(* A byte is a number in 0..255, a byte slice a sequence of bytes.  A Rust *)
(* str is a sequence of Unicode code points; its bytes are its UTF-8       *)
(* encoding.  A Result is a record with a tag: "Ok" (val), "Err" (err and  *)
(* the error's fields) or "Panic" (the call aborts the process).           *)
(***************************************************************************)
EXTENDS Integers, Sequences, FiniteSets, TLC

VARIABLES file, png, last, input, output

vars == <<file, png, last, input, output>>

----------------------------------------------------------------------------
(* Machine integers and byte strings *)

\* TLC's integers stop at 2^31 - 1, so a u32 (and the usize made from one) is
\* kept as two 16-bit limbs, [hi, lo], value hi * 65536 + lo.
Limb == 256 * 256

\* &bytes[from..] and &bytes[..n] of split_at
Drop(bytes, n) == SubSeq(bytes, n + 1, Len(bytes))
Take(bytes, n) == SubSeq(bytes, 1, n)

RECURSIVE BitXor(_, _)
BitXor(a, b) ==
    IF a = 0 THEN b
    ELSE IF b = 0 THEN a
    ELSE 2 * BitXor(a \div 2, b \div 2) + ((a + b) % 2)

\* a ^ b by 4-bit digits, from a table made once
Xor4 == [a \in 0..15 |-> [b \in 0..15 |-> BitXor(a, b)]]
Xor8(a, b) == 16 * Xor4[a \div 16][b \div 16] + Xor4[a % 16][b % 16]
Xor16(a, b) == 256 * Xor8(a \div 256, b \div 256) + Xor8(a % 256, b % 256)

WideXor(x, y) == [hi |-> Xor16(x.hi, y.hi), lo |-> Xor16(x.lo, y.lo)]

\* x >> 1 and x >> 8
WideShr1(x) == [hi |-> x.hi \div 2, lo |-> (x.lo \div 2) + (x.hi % 2) * 32768]
WideShr8(x) == [hi |-> x.hi \div 256, lo |-> (x.lo \div 256) + (x.hi % 256) * 256]

\* n as u32 / as usize, for a length n the model can hold
WideOfInt(n) == [hi |-> (n \div Limb) % Limb, lo |-> n % Limb]
IntOfWide(x) == x.hi * Limb + x.lo

\* x + n > m in usize arithmetic (64 bits: a u32 plus a small constant never wraps)
WideAddGt(x, n, m) ==
    LET lo == (x.lo + n) % Limb
        hi == x.hi + ((x.lo + n) \div Limb)
    IN  hi > m \div Limb \/ (hi = m \div Limb /\ lo > m % Limb)

\* u32::from_be_bytes
U32FromBe(b) == [hi |-> b[1] * 256 + b[2], lo |-> b[3] * 256 + b[4]]

\* u32::to_be_bytes
U32ToBe(x) == << x.hi \div 256, x.hi % 256, x.lo \div 256, x.lo % 256 >>

----------------------------------------------------------------------------
(* UTF-8: str::as_bytes and std::str::from_utf8 *)

Utf8Char(cp) ==
    IF cp < 128 THEN << cp >>
    ELSE IF cp < 2048 THEN << 192 + (cp \div 64), 128 + (cp % 64) >>
    ELSE IF cp < 65536 THEN
        << 224 + (cp \div 4096), 128 + ((cp \div 64) % 64), 128 + (cp % 64) >>
    ELSE << 240 + (cp \div 262144), 128 + ((cp \div 4096) % 64),
            128 + ((cp \div 64) % 64), 128 + (cp % 64) >>

RECURSIVE StrAsBytes(_)
StrAsBytes(s) ==
    IF s = << >> THEN << >> ELSE Utf8Char(Head(s)) \o StrAsBytes(Tail(s))

\* str::len counts bytes, not characters
StrLen(s) == Len(StrAsBytes(s))

IsCont(b) == b >= 128 /\ b <= 191

\* The scalar value that starts at the head of bytes, and the bytes it takes
\* (n = 0: not valid UTF-8).
Utf8Next(bytes) ==
    LET b1 == bytes[1]
        n  == IF b1 < 128 THEN 1
              ELSE IF b1 >= 194 /\ b1 <= 223 THEN 2
              ELSE IF b1 >= 224 /\ b1 <= 239 THEN 3
              ELSE IF b1 >= 240 /\ b1 <= 244 THEN 4
              ELSE 0
    IN  IF n = 0 \/ Len(bytes) < n THEN [n |-> 0, cp |-> 0]
        ELSE IF n = 1 THEN [n |-> 1, cp |-> b1]
        ELSE IF \E i \in 2..n : ~IsCont(bytes[i]) THEN [n |-> 0, cp |-> 0]
        ELSE LET cp == IF n = 2 THEN (b1 - 192) * 64 + (bytes[2] - 128)
                       ELSE IF n = 3 THEN
                           ((b1 - 224) * 64 + (bytes[2] - 128)) * 64 + (bytes[3] - 128)
                       ELSE (((b1 - 240) * 64 + (bytes[2] - 128)) * 64
                               + (bytes[3] - 128)) * 64 + (bytes[4] - 128)
                 bad == \/ n = 3 /\ cp < 2048
                        \/ n = 3 /\ cp >= 55296 /\ cp <= 57343
                        \/ n = 4 /\ (cp < 65536 \/ cp > 1114111)
             IN  IF bad THEN [n |-> 0, cp |-> 0] ELSE [n |-> n, cp |-> cp]

RECURSIVE FromUtf8(_)
FromUtf8(bytes) ==
    IF bytes = << >> THEN [tag |-> "Ok", val |-> << >>]
    ELSE LET c == Utf8Next(bytes)
         IN  IF c.n = 0 THEN [tag |-> "Err", err |-> "Utf8Error"]
             ELSE LET r == FromUtf8(Drop(bytes, c.n))
                  IN  IF r.tag = "Ok"
                      THEN [tag |-> "Ok", val |-> << c.cp >> \o r.val]
                      ELSE r

----------------------------------------------------------------------------
(* chunk_type.rs *)

is_ascii_uppercase(b) == b >= 65 /\ b <= 90
is_ascii_lowercase(b) == b >= 97 /\ b <= 122
is_ascii_alphabetic(b) == is_ascii_uppercase(b) \/ is_ascii_lowercase(b)

\* Slip: all() where the code has any(): refuses only 4 non-letters
ChunkTypeTryFrom_AllForAny(bytes) ==
    IF \A i \in 1..4 : ~is_ascii_alphabetic(bytes[i])
    THEN [tag |-> "Err", err |-> "InvalidByteArray"]
    ELSE [tag |-> "Ok", val |-> bytes]

\* impl TryFrom<[u8; 4]> for ChunkType
ChunkTypeTryFrom(bytes) ==
    IF \E i \in 1..4 : ~is_ascii_alphabetic(bytes[i])
    THEN [tag |-> "Err", err |-> "InvalidByteArray"]
    ELSE [tag |-> "Ok", val |-> bytes]

\* impl FromStr for ChunkType
ChunkTypeFromStr(s) ==
    IF StrLen(s) # 4
    THEN [tag |-> "Err", err |-> "InvalidString"]
    ELSE ChunkTypeTryFrom(Take(StrAsBytes(s), 4))

\* Slip: the name shouted, as to_ascii_uppercase would
ChunkTypeToString_Uppercase(ct) ==
    [tag |-> "Ok",
     val |-> [i \in 1..Len(ct) |-> IF is_ascii_lowercase(ct[i]) THEN ct[i] - 32 ELSE ct[i]]]

\* Slip: the name formatted with {:?}, in double quotes
ChunkTypeToString_Quoted(ct) == [tag |-> "Ok", val |-> << 34 >> \o ct \o << 34 >>]

\* impl Display for ChunkType (to_string panics when fmt returns an error)
ChunkTypeToString(ct) ==
    LET r == FromUtf8(ct)
    IN  IF r.tag = "Ok" THEN r ELSE [tag |-> "Panic", err |-> "fmt::Error"]

ChunkTypeBytes(ct) == ct

\* Slip: the byte after the reserved one
is_reserved_bit_valid_NextByte(ct) == is_ascii_uppercase(ct[4])

is_reserved_bit_valid(ct) == is_ascii_uppercase(ct[3])
is_critical(ct) == is_ascii_uppercase(ct[1])
is_public(ct) == is_ascii_uppercase(ct[2])
is_safe_to_copy(ct) == is_ascii_lowercase(ct[4])
\* Slip: the reserved bit left out
is_valid_LettersOnly(ct) == \A i \in 1..4 : is_ascii_alphabetic(ct[i])

is_valid(ct) ==
    (\A i \in 1..4 : is_ascii_alphabetic(ct[i])) /\ is_reserved_bit_valid(ct)

----------------------------------------------------------------------------
(* chunk.rs *)

CHUNK_TYPE_SIZE == 4
LENGTH_SIZE == 4
CRC_SIZE == 4
METADATA_SIZE == CHUNK_TYPE_SIZE + LENGTH_SIZE + CRC_SIZE

\* CRC_32_ISO_HDLC: reflected polynomial 0xEDB88320, init and xorout 0xFFFFFFFF
CrcPoly == [hi |-> 60856, lo |-> 33568]
CrcInit == [hi |-> 65535, lo |-> 65535]

\* Eight shifts of the reflected register, one per bit of a byte
RECURSIVE CrcShift(_, _)
CrcShift(c, k) ==
    IF k = 0 THEN c
    ELSE CrcShift(IF c.lo % 2 = 1 THEN WideXor(WideShr1(c), CrcPoly)
                  ELSE WideShr1(c), k - 1)

\* The crc crate's table: the register after a byte on an empty register
CrcTable == [n \in 0..255 |-> CrcShift([hi |-> 0, lo |-> n], 8)]

U16 == 0..65535
Wide == [hi : U16, lo : U16]

\* The register after one more byte.  (A function: TLC evaluates a function's
\* argument before it applies it, which keeps the evaluation shallow.)
CrcByte[c \in Wide, b \in 0..255] ==
    WideXor(CrcTable[Xor8(c.lo % 256, b)], WideShr8(c))

\* The register after each prefix of bytes
CrcRegister(bytes) ==
    LET reg[i \in 0..Len(bytes)] ==
            IF i = 0 THEN CrcInit ELSE CrcByte[reg[i - 1], bytes[i]]
    IN  reg[Len(bytes)]

\* crc::Crc::<u32>::new(&crc::CRC_32_ISO_HDLC).checksum
Checksum(bytes) == WideXor(CrcRegister(bytes), CrcInit)

\* Chunk::new
ChunkNew(chunk_type, data) == [chunk_type |-> chunk_type, data |-> data]

\* Chunk::length
ChunkLength(c) == Len(c.data)

\* Chunk::crc
ChunkCrc(c) == Checksum(ChunkTypeBytes(c.chunk_type) \o c.data)

\* Chunk::data_as_string
ChunkDataAsString(c) == FromUtf8(c.data)

\* Slip: the crc chained before the data
ChunkAsBytes_CrcBeforeData(c) ==
    U32ToBe(WideOfInt(Len(c.data)))
        \o ChunkTypeBytes(c.chunk_type) \o U32ToBe(ChunkCrc(c)) \o c.data

\* Chunk::as_bytes
ChunkAsBytes(c) ==
    U32ToBe(WideOfInt(Len(c.data)))
        \o ChunkTypeBytes(c.chunk_type) \o c.data \o U32ToBe(ChunkCrc(c))

\* Slip: the checksum read and never compared
ChunkTryFrom_NoCrcCheck(bytes) ==
    IF Len(bytes) < LENGTH_SIZE
    THEN [tag |-> "Panic", err |-> "split_at: mid > len"]
    ELSE
    LET chunk_data_length == U32FromBe(Take(bytes, LENGTH_SIZE))
        bytes1 == Drop(bytes, LENGTH_SIZE)
    IN  IF WideAddGt(chunk_data_length, METADATA_SIZE - LENGTH_SIZE, Len(bytes1))
        THEN [tag |-> "Err", err |-> "InputTooSmall",
              required |-> chunk_data_length, available |-> Len(bytes1)]
        ELSE
        LET chunk_type == ChunkTypeTryFrom(Take(bytes1, CHUNK_TYPE_SIZE))
            bytes2 == Drop(bytes1, CHUNK_TYPE_SIZE)
        IN  IF chunk_type.tag # "Ok" THEN chunk_type
            ELSE IF ~is_valid(chunk_type.val)
            THEN LET s == ChunkTypeToString(chunk_type.val)
                 IN  IF s.tag = "Ok"
                     THEN [tag |-> "Err", err |-> "InvalidChunkType", name |-> s.val]
                     ELSE s
            ELSE [tag |-> "Ok",
                  val |-> ChunkNew(chunk_type.val,
                                   Take(bytes2, IntOfWide(chunk_data_length)))]

\* Slip (the earlier variant of the parser): the data is all that lies
\* between the type and the last 4 bytes of the slice
ChunkTryFrom_ExactLength(bytes) ==
    IF Len(bytes) < LENGTH_SIZE
    THEN [tag |-> "Panic", err |-> "split_at: mid > len"]
    ELSE
    LET chunk_data_length == U32FromBe(Take(bytes, LENGTH_SIZE))
        bytes1 == Drop(bytes, LENGTH_SIZE)
    IN  IF WideAddGt(chunk_data_length, METADATA_SIZE - LENGTH_SIZE, Len(bytes1))
        THEN [tag |-> "Err", err |-> "InputTooSmall",
              required |-> chunk_data_length, available |-> Len(bytes1)]
        ELSE
        LET chunk_type == ChunkTypeTryFrom(Take(bytes1, CHUNK_TYPE_SIZE))
            bytes2 == Drop(bytes1, CHUNK_TYPE_SIZE)
        IN  IF chunk_type.tag # "Ok" THEN chunk_type
            ELSE IF ~is_valid(chunk_type.val)
            THEN LET s == ChunkTypeToString(chunk_type.val)
                 IN  IF s.tag = "Ok"
                     THEN [tag |-> "Err", err |-> "InvalidChunkType", name |-> s.val]
                     ELSE s
            ELSE
            LET chunk_data == Take(bytes2, Len(bytes2) - CRC_SIZE)
                new_chunk == ChunkNew(chunk_type.val, chunk_data)
                checksum == U32FromBe(Drop(bytes2, Len(bytes2) - CRC_SIZE))
                calculated_checksum == ChunkCrc(new_chunk)
            IN  IF checksum # calculated_checksum
                THEN [tag |-> "Err", err |-> "InvalidCrc",
                      expected |-> calculated_checksum, actual |-> checksum]
                ELSE [tag |-> "Ok", val |-> new_chunk]

\* impl TryFrom<&[u8]> for Chunk
ChunkTryFrom(bytes) ==
    IF Len(bytes) < LENGTH_SIZE
    THEN [tag |-> "Panic", err |-> "split_at: mid > len"]
    ELSE
    LET chunk_data_length == U32FromBe(Take(bytes, LENGTH_SIZE))
        bytes1 == Drop(bytes, LENGTH_SIZE)
    IN  IF WideAddGt(chunk_data_length, METADATA_SIZE - LENGTH_SIZE, Len(bytes1))
        THEN [tag |-> "Err", err |-> "InputTooSmall",
              required |-> chunk_data_length, available |-> Len(bytes1)]
        ELSE
        LET chunk_type == ChunkTypeTryFrom(Take(bytes1, CHUNK_TYPE_SIZE))
            bytes2 == Drop(bytes1, CHUNK_TYPE_SIZE)
        IN  IF chunk_type.tag # "Ok" THEN chunk_type
            ELSE IF ~is_valid(chunk_type.val)
            THEN LET s == ChunkTypeToString(chunk_type.val)
                 IN  IF s.tag = "Ok"
                     THEN [tag |-> "Err", err |-> "InvalidChunkType", name |-> s.val]
                     ELSE s
            ELSE
            LET chunk_data == Take(bytes2, IntOfWide(chunk_data_length))
                bytes3 == Drop(bytes2, IntOfWide(chunk_data_length))
                new_chunk == ChunkNew(chunk_type.val, chunk_data)
                checksum == U32FromBe(Take(bytes3, CRC_SIZE))
                calculated_checksum == ChunkCrc(new_chunk)
            IN  IF checksum # calculated_checksum
                THEN [tag |-> "Err", err |-> "InvalidCrc",
                      expected |-> calculated_checksum, actual |-> checksum]
                ELSE [tag |-> "Ok", val |-> new_chunk]

\* impl Display for Chunk: the numbers the rendering shows
ChunkDisplay(c) ==
    LET t == ChunkTypeToString(c.chunk_type)
    IN  IF t.tag # "Ok" THEN t
        ELSE [tag |-> "Ok",
              val |-> [length |-> ChunkLength(c), type |-> t.val,
                       data_bytes |-> Len(c.data), crc |-> ChunkCrc(c)]]

----------------------------------------------------------------------------
(* png.rs: the container.  A Png is the sequence of its chunks. *)

STANDARD_HEADER == << 137, 80, 78, 71, 13, 10, 26, 10 >>

\* The chunk loop of Png::try_from: chunk after chunk from the front of the
\* remaining slice; a remainder too short to hold a chunk's 12 bytes of
\* framing is not handed to Chunk::try_from.
RECURSIVE PngParseChunks(_, _)
PngParseChunks(bytes, chunks) ==
    IF bytes = << >> THEN [tag |-> "Ok", val |-> chunks]
    ELSE IF Len(bytes) < METADATA_SIZE
    THEN [tag |-> "Err", err |-> "UnexpectedTrailingBytes", remaining |-> Len(bytes)]
    ELSE CHOOSE out \in
            { IF r.tag # "Ok" THEN r
              ELSE CHOOSE o \in
                      { PngParseChunks(rest, Append(chunks, r.val)) :
                          rest \in { Drop(bytes, METADATA_SIZE + ChunkLength(r.val)) } } :
                      TRUE :
              r \in { ChunkTryFrom(bytes) } } : TRUE

\* impl TryFrom<&[u8]> for Png
PngTryFrom(bytes) ==
    IF Len(bytes) < Len(STANDARD_HEADER)
       \/ Take(bytes, Len(STANDARD_HEADER)) # STANDARD_HEADER
    THEN [tag |-> "Err", err |-> "BadSignature"]
    ELSE PngParseChunks(Drop(bytes, Len(STANDARD_HEADER)), << >>)

RECURSIVE ChunksAsBytes(_)
ChunksAsBytes(chunks) ==
    IF chunks = << >> THEN << >>
    ELSE ChunkAsBytes(Head(chunks)) \o ChunksAsBytes(Tail(chunks))

\* Png::as_bytes
PngAsBytes(chunks) == STANDARD_HEADER \o ChunksAsBytes(chunks)

\* Png::append_chunk
PngAppendChunk(chunks, chunk) == Append(chunks, chunk)

\* Png::chunk_by_type: the position of the chunk the returned reference points
\* to, 0 for None.  Linear scan from position from.
RECURSIVE PngScan(_, _, _)
PngScan(chunks, type_name, from) ==
    IF from > Len(chunks) THEN 0
    ELSE IF ChunkTypeToString(chunks[from].chunk_type)
                = [tag |-> "Ok", val |-> type_name]
    THEN from
    ELSE PngScan(chunks, type_name, from + 1)

PngChunkByType(chunks, type_name) == PngScan(chunks, type_name, 1)

\* Png::remove_chunk: the result and the chunks left
PngRemoveChunk(chunks, type_name) ==
    LET i == PngChunkByType(chunks, type_name)
    IN  IF i = 0
        THEN [res |-> [tag |-> "Err", err |-> "ChunkNotFound", name |-> type_name],
              chunks |-> chunks]
        ELSE [res |-> [tag |-> "Ok", val |-> chunks[i]],
              chunks |-> Take(chunks, i - 1) \o Drop(chunks, i)]

RECURSIVE PngDisplay(_)
PngDisplay(chunks) ==
    IF chunks = << >> THEN << >>
    ELSE << ChunkDisplay(Head(chunks)) >> \o PngDisplay(Tail(chunks))

----------------------------------------------------------------------------
(* commands.rs: one action per command, run on the one file of the model.  *)
(* file: the bytes on disk.  png: the container the last command held when *)
(* it ended (no chunks when it could not read the file).  last: the last   *)
(* command, its arguments and how it ended; a failed expect() aborts the   *)
(* command with its message, before anything later in it runs.             *)

\* Bounds of the model
MaxChunks == 3

\* "RuSt", "ruSt", "Rust", "Ru1t", "RuS"
TypeNames ==
    { << 82, 117, 83, 116 >>, << 114, 117, 83, 116 >>, << 82, 117, 115, 116 >>,
      << 82, 117, 49, 116 >>, << 82, 117, 83 >> }

\* "", "hi"
Messages == { << >>, << 104, 105 >> }

\* Files that exist before the first command: no chunks; one chunk "bLOb"
\* whose data is not UTF-8.
InitialChunks == { << >>, << ChunkNew(<< 98, 76, 79, 98 >>, << 255 >>) >> }

NoInput == [kind |-> "none"]
Pending == [tag |-> "Pending"]

\* read_png
ReadPng(bytes) ==
    LET r == PngTryFrom(bytes)
    IN  IF r.tag = "Ok" THEN r ELSE [tag |-> "Panic", err |-> "Failed to read PNG"]

\* write_png: the file is truncated and the container's bytes written (one
\* write call, taken to write them all)
WritePng(chunks) == PngAsBytes(chunks)

Abort(cmd, name, msg) ==
    [cmd |-> cmd, name |-> name, outcome |-> "panic", message |-> msg]

\* encode, with output_path None or the input's own path
Encode(chunk_type, message) ==
    \E r \in { ReadPng(file) } :
        /\ r.tag = "Ok" => Len(r.val) < MaxChunks
        /\ IF r.tag # "Ok"
           THEN /\ last' = Abort("encode", chunk_type, r.err)
                /\ png' = << >>
                /\ file' = file
           ELSE \E t \in { ChunkTypeFromStr(chunk_type) } :
                IF t.tag # "Ok"
                THEN /\ last' = Abort("encode", chunk_type, "Failed to creat chunk type")
                     /\ png' = r.val
                     /\ file' = file
                ELSE \E chunk \in { ChunkNew(t.val, StrAsBytes(message)) } :
                     \E after \in { PngAppendChunk(r.val, chunk) } :
                        /\ last' = [cmd |-> "encode", name |-> chunk_type,
                                    outcome |-> "ok", before |-> r.val,
                                    chunk |-> chunk, text |-> message]
                        /\ png' = after
                        /\ file' = WritePng(after)
        /\ UNCHANGED <<input, output>>

\* decode
Decode(chunk_type) ==
    \E r \in { ReadPng(file) } :
        /\ IF r.tag # "Ok"
           THEN /\ last' = Abort("decode", chunk_type, r.err)
                /\ png' = << >>
           ELSE \E i \in { PngChunkByType(r.val, chunk_type) } :
                    /\ png' = r.val
                    /\ IF i = 0
                       THEN last' = Abort("decode", chunk_type, "Failed to find chunk")
                       ELSE \E d \in { ChunkDataAsString(r.val[i]) } :
                                IF d.tag # "Ok"
                                THEN last' = Abort("decode", chunk_type,
                                                   "Failed to decode chunk")
                                ELSE last' = [cmd |-> "decode", name |-> chunk_type,
                                              outcome |-> "ok", before |-> r.val,
                                              index |-> i, text |-> d.val]
        /\ UNCHANGED <<file, input, output>>

\* remove
Remove(chunk_type) ==
    \E r \in { ReadPng(file) } :
        /\ IF r.tag # "Ok"
           THEN /\ last' = Abort("remove", chunk_type, r.err)
                /\ png' = << >>
                /\ file' = file
           ELSE \E d \in { PngRemoveChunk(r.val, chunk_type) } :
                    /\ png' = d.chunks
                    /\ IF d.res.tag # "Ok"
                       THEN /\ last' = [cmd |-> "remove", name |-> chunk_type,
                                        outcome |-> "panic",
                                        message |-> "Failed to remove chunk",
                                        before |-> r.val, error |-> d.res.err]
                            /\ file' = file
                       ELSE /\ last' = [cmd |-> "remove", name |-> chunk_type,
                                        outcome |-> "ok", before |-> r.val,
                                        removed |-> d.res.val]
                            /\ file' = WritePng(d.chunks)
        /\ UNCHANGED <<input, output>>

\* print
PrintCmd ==
    \E r \in { ReadPng(file) } :
        /\ IF r.tag # "Ok"
           THEN /\ last' = Abort("print", << >>, r.err)
                /\ png' = << >>
           ELSE /\ last' = [cmd |-> "print", name |-> << >>, outcome |-> "ok",
                            shown |-> PngDisplay(r.val)]
                /\ png' = r.val
        /\ UNCHANGED <<file, input, output>>

Init ==
    /\ png \in InitialChunks
    /\ file = PngAsBytes(png)
    /\ last = [cmd |-> "init"]
    /\ input = NoInput
    /\ output = Pending

Next ==
    \/ \E t \in TypeNames, m \in Messages : Encode(t, m)
    \/ \E t \in TypeNames : Decode(t)
    \/ \E t \in TypeNames : Remove(t)
    \/ PrintCmd

Spec == Init /\ [][Next]_vars
----------------------------------------------------------------------------
(* The codec's functions on their own: Init draws one input, the action of *)
(* its kind applies the function to it.                                    *)

MaxStrLen == 5
MaxData == 2
MaxStreamChunks == 2

\* All sequences over S of length 0..n
RECURSIVE SeqsUpTo(_, _)
SeqsUpTo(S, n) ==
    IF n = 0 THEN { << >> }
    ELSE LET shorter == SeqsUpTo(S, n - 1)
         IN  shorter \cup { Append(q, x) : q \in { t \in shorter : Len(t) = n - 1 }, x \in S }

\* Bytes around the two letter ranges: @ A Z [ ` a z {
EdgeBytes == { 64, 65, 90, 91, 96, 97, 122, 123 }
LetterBytes == { 65, 90, 97, 122 }

\* Characters of a type name: R s 1 e-acute (two bytes in UTF-8)
NameChars == { 82, 115, 49, 233 }

DataBytes == { 0, 104, 255 }

\* "RuSt", "ruST", "Rust", "rUst": the last two have a lowercase third letter
WireTypes ==
    { << 82, 117, 83, 116 >>, << 114, 117, 83, 84 >>,
      << 82, 117, 115, 116 >>, << 114, 85, 115, 116 >> }

\* What may follow a chunk in a slice (the second: the bytes of the test
\* test_try_from_with_excess_data)
Suffixes == { << >>, << 18, 52, 86, 120 >>, << 0 >> }

\* How a serialized chunk's crc field is overwritten
Tampers == { "keep", "plus1", "minus1", "top_bit", "zero", "ones" }

WideSucc(x) ==
    IF x.lo = Limb - 1 THEN [hi |-> (x.hi + 1) % Limb, lo |-> 0]
    ELSE [hi |-> x.hi, lo |-> x.lo + 1]
WidePred(x) ==
    IF x.lo = 0 THEN [hi |-> (x.hi + Limb - 1) % Limb, lo |-> Limb - 1]
    ELSE [hi |-> x.hi, lo |-> x.lo - 1]

Tampered(crc, how) ==
    CASE how = "keep" -> crc
      [] how = "plus1" -> WideSucc(crc)
      [] how = "minus1" -> WidePred(crc)
      [] how = "top_bit" -> [hi |-> (crc.hi + 32768) % Limb, lo |-> crc.lo]
      [] how = "zero" -> [hi |-> 0, lo |-> 0]
      [] how = "ones" -> [hi |-> Limb - 1, lo |-> Limb - 1]

\* The bytes of a chunk with its crc field overwritten
WithCrc(chunk, how) ==
    LET b == ChunkAsBytes(chunk)
    IN  Take(b, Len(b) - CRC_SIZE) \o U32ToBe(Tampered(ChunkCrc(chunk), how))

\* The bytes of a chunk with its length field overwritten
WithLength(chunk, len_bytes) == len_bytes \o Drop(ChunkAsBytes(chunk), LENGTH_SIZE)

\* Length fields: 0, 1, 2, 65536, 2^32 - 8, 2^32 - 1
LengthFields ==
    { << 0, 0, 0, 0 >>, << 0, 0, 0, 1 >>, << 0, 0, 0, 2 >>, << 0, 1, 0, 0 >>,
      << 255, 255, 255, 248 >>, << 255, 255, 255, 255 >> }

SliceChunks ==
    { ChunkNew(t, d) : t \in { << 82, 117, 83, 116 >>, << 82, 117, 115, 116 >> },
                       d \in SeqsUpTo({ 104 }, MaxData) }

\* Every prefix of a chunk's bytes, with the length field as written or overwritten
Slices ==
    LET whole == { ChunkAsBytes(c) : c \in SliceChunks }
                    \cup { WithLength(c, l) : c \in SliceChunks, l \in LengthFields }
    IN  UNION { { Take(b, k) : k \in 0..Len(b) } : b \in whole }

StreamChunks ==
    { ChunkNew(<< 82, 117, 83, 116 >>, << 104, 105 >>),
      ChunkNew(<< 114, 117, 83, 84 >>, << >>) }

Signatures ==
    { STANDARD_HEADER,
      << 138, 80, 78, 71, 13, 10, 26, 10 >>,
      << 137, 80, 78, 71, 13, 10, 26, 11 >>,
      Take(STANDARD_HEADER, 7),
      << >> }

\* What follows the last chunk of a stream: nothing; 1, 3, 4, 8 and 11 bytes;
\* a chunk with a wrong crc; a chunk whose type has a lowercase third letter;
\* a chunk cut one byte short; a chunk whose type holds a digit
Leftovers ==
    { << >>, << 0 >>, << 0, 0, 0 >>, << 0, 0, 0, 0 >>,
      << 0, 0, 0, 0, 82, 117, 83, 116 >>,
      Take(ChunkAsBytes(ChunkNew(<< 82, 117, 83, 116 >>, << >>)), 11),
      WithCrc(ChunkNew(<< 82, 117, 83, 116 >>, << >>), "plus1"),
      ChunkAsBytes(ChunkNew(<< 82, 117, 115, 116 >>, << 104 >>)),
      Take(ChunkAsBytes(ChunkNew(<< 82, 117, 83, 116 >>, << 104, 105 >>)), 13),
      ChunkAsBytes(ChunkNew(<< 82, 117, 49, 116 >>, << >>)) }

PureInputs ==
    { [kind |-> "type_bytes", bytes |-> b] : b \in [1..4 -> EdgeBytes] }
    \cup { [kind |-> "type_props", bytes |-> b] : b \in [1..4 -> LetterBytes] }
    \cup { [kind |-> "type_str", str |-> q] : q \in SeqsUpTo(NameChars, MaxStrLen) }
    \cup { [kind |-> "chunk", chunk_type |-> t, data |-> d, suffix |-> x, crc |-> h] :
             t \in WireTypes, d \in SeqsUpTo(DataBytes, MaxData),
             x \in Suffixes, h \in Tampers }
    \cup { [kind |-> "slice", bytes |-> b] : b \in Slices }
    \cup { [kind |-> "stream", signature |-> g, chunks |-> c, leftover |-> l] :
             g \in Signatures, c \in SeqsUpTo(StreamChunks, MaxStreamChunks),
             l \in Leftovers }

\* ChunkType::try_from on 4 bytes
ApplyChunkTypeTryFrom ==
    /\ input.kind = "type_bytes" /\ output = Pending
    /\ output' = ChunkTypeTryFrom(input.bytes)
    /\ UNCHANGED <<file, png, last, input>>

\* The predicates of a chunk type made from 4 letters
ApplyChunkTypePredicates ==
    /\ input.kind = "type_props" /\ output = Pending
    /\ \E t \in { ChunkTypeTryFrom(input.bytes) } :
          output' = [tag |-> t.tag,
                     is_valid |-> is_valid(t.val),
                     is_critical |-> is_critical(t.val),
                     is_public |-> is_public(t.val),
                     is_reserved_bit_valid |-> is_reserved_bit_valid(t.val),
                     is_safe_to_copy |-> is_safe_to_copy(t.val),
                     string |-> ChunkTypeToString(t.val)]
    /\ UNCHANGED <<file, png, last, input>>

\* ChunkType::from_str
ApplyChunkTypeFromStr ==
    /\ input.kind = "type_str" /\ output = Pending
    /\ output' = ChunkTypeFromStr(input.str)
    /\ UNCHANGED <<file, png, last, input>>

\* The slice a chunk input stands for: Chunk::new(..).as_bytes(), its crc field
\* overwritten, then the suffix
ChunkInputBytes(in) ==
    WithCrc(ChunkNew(in.chunk_type, in.data), in.crc) \o in.suffix

\* Chunk::try_from on the bytes of a chunk
ApplyChunkTryFrom ==
    /\ input.kind = "chunk" /\ output = Pending
    /\ output' = ChunkTryFrom(ChunkInputBytes(input))
    /\ UNCHANGED <<file, png, last, input>>

\* Chunk::try_from on any slice
ApplySliceTryFrom ==
    /\ input.kind = "slice" /\ output = Pending
    /\ output' = ChunkTryFrom(input.bytes)
    /\ UNCHANGED <<file, png, last, input>>

StreamInputBytes(in) == in.signature \o ChunksAsBytes(in.chunks) \o in.leftover

\* Png::try_from on a whole stream
ApplyPngTryFrom ==
    /\ input.kind = "stream" /\ output = Pending
    /\ output' = PngTryFrom(StreamInputBytes(input))
    /\ UNCHANGED <<file, png, last, input>>

PureInit ==
    /\ png = << >>
    /\ file = PngAsBytes(png)
    /\ last = [cmd |-> "init"]
    /\ input \in PureInputs
    /\ output = Pending

PureNext ==
    \/ ApplyChunkTypeTryFrom
    \/ ApplyChunkTypePredicates
    \/ ApplyChunkTypeFromStr
    \/ ApplyChunkTryFrom
    \/ ApplySliceTryFrom
    \/ ApplyPngTryFrom

PureSpec == PureInit /\ [][PureNext]_vars

----------------------------------------------------------------------------
(* Properties *)

Letter(b) == b \in (65..90) \cup (97..122)
Uppercase(b) == b \in 65..90
Lowercase(b) == b \in 97..122

Applied(kind) == input.kind = kind /\ output.tag # "Pending"

\* A type the format accepts: 4 letters, the third uppercase
WireValid(t) == (\A i \in 1..4 : Letter(t[i])) /\ Uppercase(t[3])

\* The big-endian number written in 4 bytes, as a pair of 16-bit halves
Field(b) == << b[1] * 256 + b[2], b[3] * 256 + b[4] >>
Halves(x) == << x.hi, x.lo >>

\* C1: for every valid chunk type T, every payload P and every byte string X
\* (empty or not), Chunk::try_from on Chunk::new(T, P).as_bytes() followed by
\* X succeeds with a chunk of type T whose payload is exactly P: X is ignored.
C1_ChunkRoundTrip ==
    (Applied("chunk") /\ input.crc = "keep" /\ WireValid(input.chunk_type))
        => /\ output.tag = "Ok"
           /\ output.val.chunk_type = input.chunk_type
           /\ output.val.data = input.data

C1_Witness ==
    /\ Applied("chunk") /\ input.crc = "keep"
    /\ input.suffix = << 18, 52, 86, 120 >>
    /\ Len(input.data) = MaxData
    /\ output.tag = "Ok"
    /\ output.val.data = input.data

\* The crc field of the slice a chunk input stands for
DeclaredCrc(in) ==
    LET b == ChunkInputBytes(in)
        at == LENGTH_SIZE + CHUNK_TYPE_SIZE + Len(in.data)
    IN  Field(SubSeq(b, at + 1, at + 4))

\* C3: a serialized chunk with a valid type whose crc field is overwritten by
\* a value other than the CRC-32 of type bytes followed by payload is refused
\* with the crc error, which carries the computed and the declared value; and
\* no chunk is ever returned from a slice whose crc field differs from the
\* CRC-32 of the returned chunk's type and payload.
C3_CrcEnforced ==
    /\ (Applied("chunk") /\ WireValid(input.chunk_type)
          /\ DeclaredCrc(input) # Halves(Checksum(input.chunk_type \o input.data)))
         => /\ output.tag = "Err"
            /\ output.err = "InvalidCrc"
            /\ Halves(output.expected) = Halves(Checksum(input.chunk_type \o input.data))
            /\ Halves(output.actual) = DeclaredCrc(input)
    /\ (Applied("slice") /\ output.tag = "Ok")
         => LET at == LENGTH_SIZE + CHUNK_TYPE_SIZE + Len(output.val.data)
            IN  Field(SubSeq(input.bytes, at + 1, at + 4))
                    = Halves(Checksum(output.val.chunk_type \o output.val.data))

C3_Witness ==
    /\ Applied("chunk") /\ input.crc = "minus1" /\ input.suffix # << >>
    /\ output.tag = "Err"
    /\ output.err = "InvalidCrc"
    /\ output.actual = WidePred(output.expected)

\* C6: ChunkType::try_from succeeds exactly on 4 letters, ChunkType::from_str
\* exactly on strings of 4 bytes that are all letters; on success bytes()
\* gives back the 4 input bytes, and from_str gives the value try_from gives
\* for the same 4 bytes.
C6_ConstructionExact ==
    /\ Applied("type_bytes")
         => /\ (output.tag = "Ok") <=> (\A i \in 1..4 : Letter(input.bytes[i]))
            /\ output.tag = "Ok" => ChunkTypeBytes(output.val) = input.bytes
            /\ output.tag # "Ok" => output.tag = "Err"
    /\ Applied("type_str")
         => LET b == StrAsBytes(input.str)
            IN  /\ (output.tag = "Ok")
                      <=> (Len(b) = 4 /\ \A i \in 1..Len(b) : Letter(b[i]))
                /\ output.tag = "Ok"
                      => /\ ChunkTypeBytes(output.val) = b
                         /\ output = ChunkTypeTryFrom(b)
                /\ output.tag # "Ok" => output.tag = "Err"

C6_Witness ==
    /\ Applied("type_str")
    /\ output.tag = "Ok"
    /\ output.val = << 82, 115, 115, 82 >>

\* C7: for a chunk type made of 4 letters, is_valid() is true exactly when
\* the third byte is uppercase and false exactly when it is lowercase, equal
\* to is_reserved_bit_valid() whatever the case of the other bytes; and
\* Chunk::try_from refuses with the invalid-chunk-type error every slice whose
\* type is 4 letters with the third lowercase, right length and crc included.
C7_ReservedBit ==
    /\ Applied("type_props")
         => /\ output.tag = "Ok"
            /\ output.is_valid = Uppercase(input.bytes[3])
            /\ output.is_valid = ~Lowercase(input.bytes[3])
            /\ output.is_valid = output.is_reserved_bit_valid
    /\ (Applied("chunk") /\ (\A i \in 1..4 : Letter(input.chunk_type[i]))
          /\ Lowercase(input.chunk_type[3]))
         => /\ output.tag = "Err"
            /\ output.err = "InvalidChunkType"

C7_Witness ==
    /\ Applied("chunk") /\ input.crc = "keep"
    /\ Uppercase(input.chunk_type[2]) /\ Lowercase(input.chunk_type[3])
    /\ output.tag = "Err"
    /\ output.err = "InvalidChunkType"
    /\ output.name = input.chunk_type

\* C8: Chunk::try_from gives a result for every slice of every length: with
\* fewer than declared length + 8 bytes after the length field, and also with
\* fewer than 4 bytes in all, the result is the input-too-small error; the
\* call does not abort.
C8_ParseNeverAborts ==
    Applied("slice")
        => /\ output.tag \in { "Ok", "Err" }
           /\ Len(input.bytes) < LENGTH_SIZE
                 => output.tag = "Err" /\ output.err = "InputTooSmall"
           /\ (Len(input.bytes) >= LENGTH_SIZE
                 /\ \/ input.bytes[1] # 0 \/ input.bytes[2] # 0
                    \/ input.bytes[3] * 256 + input.bytes[4] + 8
                          > Len(input.bytes) - LENGTH_SIZE)
                 => output.tag = "Err" /\ output.err = "InputTooSmall"

AllWireValid(chunks) == \A i \in 1..Len(chunks) : WireValid(chunks[i].chunk_type)

\* C2: for every container whose chunks all have valid types, the empty one
\* and ones with repeated types included, Png::try_from on its as_bytes()
\* succeeds with the same number of chunks and, position by position, the
\* same type and payload.
C2_ContainerRoundTrip ==
    AllWireValid(png)
        => LET r == PngTryFrom(PngAsBytes(png))
           IN  /\ r.tag = "Ok"
               /\ Len(r.val) = Len(png)
               /\ \A i \in 1..Len(png) :
                     /\ r.val[i].chunk_type = png[i].chunk_type
                     /\ r.val[i].data = png[i].data

C2_Witness ==
    /\ Len(png) = MaxChunks
    /\ png[2].chunk_type = png[3].chunk_type
    /\ png[2].data # png[3].data
    /\ AllWireValid(png)
    /\ PngTryFrom(file) = [tag |-> "Ok", val |-> png]

Encoded == last.cmd = "encode" /\ last.outcome = "ok"

\* Positions before the last whose chunk has the type of the chunk just appended
EarlierOfType == { j \in 1..(Len(png) - 1) : png[j].chunk_type = last.chunk.chunk_type }

\* C4 as stated: after append_chunk(c), chunk_by_type with c's type string
\* returns c, payload unchanged.
C4_LookupReturnsAppended ==
    Encoded
        => LET i == PngChunkByType(png, last.name)
           IN  /\ i # 0
               /\ png[i] = last.chunk
               /\ png[i].data = StrAsBytes(last.text)

\* C4, amended: after append_chunk(c), chunk_by_type with c's type string
\* returns the first chunk of c's type in sequence order; that is c, payload
\* unchanged, exactly when no earlier chunk has c's type, and the earliest
\* chunk of that type otherwise.
C4_LookupReturnsFirstOfType ==
    Encoded
        => LET i == PngChunkByType(png, last.name)
               n == Len(png)
           IN  /\ n = Len(last.before) + 1
               /\ png[n] = last.chunk
               /\ last.chunk.chunk_type = StrAsBytes(last.name)
               /\ last.chunk.data = StrAsBytes(last.text)
               /\ i # 0
               /\ png[i].chunk_type = last.chunk.chunk_type
               /\ \A j \in 1..(i - 1) : png[j].chunk_type # last.chunk.chunk_type
               /\ (i = n) <=> (EarlierOfType = {})

C4_Witness ==
    /\ Encoded
    /\ EarlierOfType # {}
    /\ PngChunkByType(png, last.name) = 1
    /\ png[1].data # last.chunk.data

Removing == last.cmd = "remove" /\ (last.outcome = "ok" \/ last.message = "Failed to remove chunk")

\* Positions of the chunks read whose type is the name given to remove
OfName == { j \in 1..Len(last.before) : last.before[j].chunk_type = StrAsBytes(last.name) }

\* C5: remove_chunk with a type no chunk has gives the not-found error and
\* leaves the sequence as it was; otherwise it removes and returns exactly
\* the first chunk of that type: the sequence is one shorter and every other
\* chunk, later ones of the same type included, keeps its relative place.
C5_RemoveFirstOfType ==
    Removing
        => LET b == last.before
           IN  IF OfName = {}
               THEN /\ last.outcome = "panic"
                    /\ last.error = "ChunkNotFound"
                    /\ png = b
               ELSE LET i == CHOOSE j \in OfName : \A k \in OfName : j <= k
                    IN  /\ last.outcome = "ok"
                        /\ last.removed = b[i]
                        /\ Len(png) = Len(b) - 1
                        /\ \A j \in 1..Len(png) :
                              png[j] = IF j < i THEN b[j] ELSE b[j + 1]

C5_Witness ==
    /\ Removing
    /\ last.outcome = "ok"
    /\ Cardinality(OfName) = 2
    /\ Len(png) = 2
    /\ png[2].chunk_type = last.removed.chunk_type
    /\ png[2].data # last.removed.data

\* C10: every file that encode and remove leave behind is one Png::try_from
\* accepts again.
C10_FileStaysReadable == PngTryFrom(file).tag = "Ok"

====
